---- MODULE Spec2Model ----
(***************************************************************************)
(* llmstxt: the `gen` and `gen-full` actions of src/cli/actions/gen.js.    *)
(*                                                                         *)
(* A JavaScript string is modelled as a sequence of tokens (a token is a   *)
(* character or an indivisible word), so that the string operations of the *)
(* source (startsWith, match, replace, trim, toUpperCase, split) are       *)
(* computed and not assumed.  An absent value (undefined / null) is the    *)
(* empty tuple None, a present value v is the one-element tuple Some(v).   *)
(*                                                                         *)
(* An action is a callback of the event loop or the continuation of an     *)
(* await, run to its next await.                                           *)
(***************************************************************************)
EXTENDS Integers, Sequences, FiniteSets, TLC

\* ------------------------------------------------------------------ bounds

\* Longest sitemap (number of URLs in sites.sites) that is explored.
MaxUrls == 3

\* The rounds of the batch loop that are followed once its i is below 0.
MaxSpins == 2

\* ------------------------------------------------------- optional values

None == <<>>

Some(v) == <<v>>

IsSome(m) == m # <<>>

Get(m) == m[1]

Min(a, b) == IF a <= b THEN a ELSE b

\* ------------------------------------------------------------- characters

Space == " "

Slash == "/"

Bar == "|"

IsSpace(c) == c = Space

ToUpperChar(c) ==
    CASE c = "d" -> "D" [] c = "o" -> "O" [] c = "c" -> "C" [] c = "s" -> "S"
      [] c = "b" -> "B" [] c = "l" -> "L" [] c = "g" -> "G" [] c = "a" -> "A"
      [] c = "r" -> "R" [] c = "t" -> "T"
      [] OTHER -> c

ToLowerChar(c) ==
    CASE c = "D" -> "d" [] c = "O" -> "o" [] c = "C" -> "c" [] c = "S" -> "s"
      [] c = "B" -> "b" [] c = "L" -> "l" [] c = "G" -> "g" [] c = "A" -> "a"
      [] c = "R" -> "r" [] c = "T" -> "t"
      [] OTHER -> c

\* String.prototype.trim
RECURSIVE TrimStart(_)
TrimStart(s) ==
    IF s # <<>> /\ IsSpace(Head(s)) THEN TrimStart(Tail(s)) ELSE s

RECURSIVE TrimEnd(_)
TrimEnd(s) ==
    IF s # <<>> /\ IsSpace(s[Len(s)]) THEN TrimEnd(SubSeq(s, 1, Len(s) - 1)) ELSE s

Trim(s) == TrimEnd(TrimStart(s))

\* String.prototype.startsWith
StartsWith(s, p) == Len(s) >= Len(p) /\ SubSeq(s, 1, Len(p)) = p

\* Positions of the token c in s.
Positions(s, c) == {j \in 1..Len(s) : s[j] = c}

SetMin(S) == CHOOSE x \in S : \A y \in S : x <= y

Digits == {"0", "1", "2", "3", "4", "5", "6", "7", "8", "9"}

DigitValue(c) ==
    CASE c = "0" -> 0 [] c = "1" -> 1 [] c = "2" -> 2 [] c = "3" -> 3 [] c = "4" -> 4
      [] c = "5" -> 5 [] c = "6" -> 6 [] c = "7" -> 7 [] c = "8" -> 8 [] OTHER -> 9

RECURSIVE NumberOf(_)
NumberOf(key) ==
    IF key = <<>> THEN 0
    ELSE 10 * NumberOf(SubSeq(key, 1, Len(key) - 1)) + DigitValue(key[Len(key)])

\* The number NaN, told from the other optional values by its length.
NaN == <<"N", "a", "N">>

IsNaN(m) == Len(m) = 3

\* The longest prefix of s that is made of digits.
RECURSIVE DigitPrefix(_)
DigitPrefix(s) ==
    IF s # <<>> /\ Head(s) \in Digits THEN <<Head(s)>> \o DigitPrefix(Tail(s)) ELSE <<>>

\* parseInt(text) in radix 10: leading white space, a sign, the digits that
\* follow; NaN when there is no digit there.
parseInt(text) ==
    LET t      == TrimStart(text)
        signed == t # <<>> /\ Head(t) \in {"-", "+"}
        digits == DigitPrefix(IF signed THEN Tail(t) ELSE t)
    IN IF digits = <<>> THEN NaN
       ELSE IF signed /\ Head(t) = "-" THEN Some(0 - NumberOf(digits))
       ELSE Some(NumberOf(digits))

SetMax(S) == CHOOSE x \in S : \A y \in S : y <= x

\* String.prototype.replace(pattern, replacement) for a pattern that is a
\* literal token sequence without the g flag: the first occurrence only.
Occurrences(s, p) ==
    {j \in 1..(Len(s) - Len(p) + 1) : SubSeq(s, j, j + Len(p) - 1) = p}

ReplaceFirst(s, p, r) ==
    IF Occurrences(s, p) = {} THEN s
    ELSE LET j == SetMin(Occurrences(s, p))
         IN SubSeq(s, 1, j - 1) \o r \o SubSeq(s, j + Len(p), Len(s))

\* ... and with the g flag: every non-overlapping occurrence, left to right.
RECURSIVE ReplaceAll(_, _, _)
ReplaceAll(s, p, r) ==
    IF Occurrences(s, p) = {} \/ p = <<>> THEN ReplaceFirst(s, p, r)
    ELSE LET j == SetMin(Occurrences(s, p))
         IN SubSeq(s, 1, j - 1) \o r
              \o ReplaceAll(SubSeq(s, j + Len(p), Len(s)), p, r)

\* ------------------------------------------------- title post-processing

\* The flags the command syntax admits: [gimsuy].
FlagChars == {"g", "i", "m", "s", "u", "y"}

\* The slashes of a command after its leading "s/".
LaterSlashes(command) == {j \in Positions(command, Slash) : j > 2}

\* command.match(/^s\/(.*?)\/(.*?)\/([gimsuy]*)$/): the lazy groups make the
\* pattern end at the first later slash and the replacement at the last one,
\* and everything after the last slash must be flags.
CommandMatches(command) ==
    /\ StartsWith(command, <<"s", Slash>>)
    /\ Cardinality(LaterSlashes(command)) >= 2
    /\ \A j \in (SetMax(LaterSlashes(command)) + 1)..Len(command) :
          command[j] \in FlagChars

\* new RegExp(pattern, flags) throws a SyntaxError on a repeated flag.
RegExpOk(flags) == \A j, k \in 1..Len(flags) : flags[j] = flags[k] => j = k

\* parseSubstitutionCommand: None when it throws.
parseSubstitutionCommand(command) ==
    IF ~CommandMatches(command) THEN None
    ELSE LET p1 == SetMin(LaterSlashes(command))
             p2 == SetMax(LaterSlashes(command))
             flags == SubSeq(command, p2 + 1, Len(command))
         IN IF ~RegExpOk(flags) THEN None
            ELSE Some([pattern     |-> SubSeq(command, 3, p1 - 1),
                       replacement |-> SubSeq(command, p1 + 1, p2 - 1),
                       flags       |-> flags])

\* substituteTitle: None when it throws, Some(title') otherwise.
substituteTitle(title, command) ==
    IF command = <<>> \/ ~StartsWith(command, <<"s", Slash>>) THEN Some(title)
    ELSE LET parsed == parseSubstitutionCommand(command)
         IN IF ~IsSome(parsed) THEN None
            ELSE IF \E j \in 1..Len(Get(parsed).flags) : Get(parsed).flags[j] = "g"
                 THEN Some(ReplaceAll(title, Get(parsed).pattern, Get(parsed).replacement))
                 ELSE Some(ReplaceFirst(title, Get(parsed).pattern, Get(parsed).replacement))

\* Mutant of ApplyCommands: the commands applied from the last to the first.
RECURSIVE ApplyCommandsLastFirst(_, _)
ApplyCommandsLastFirst(title, commands) ==
    IF commands = <<>> THEN Some(title)
    ELSE LET t == substituteTitle(title, commands[Len(commands)])
         IN IF IsSome(t)
            THEN ApplyCommandsLastFirst(Get(t), SubSeq(commands, 1, Len(commands) - 1))
            ELSE None

\* for (command of replaceTitle) title = substituteTitle(title, command):
\* None as soon as one command throws.
RECURSIVE ApplyCommands(_, _)
ApplyCommands(title, commands) ==
    IF commands = <<>> THEN Some(title)
    ELSE LET t == substituteTitle(title, Head(commands))
         IN IF IsSome(t) THEN ApplyCommands(Get(t), Tail(commands)) ELSE None

\* The value the loop variable is left with: the previous value when the
\* list is empty, else the command that threw or the last command.
RECURSIVE LoopVariable(_, _, _)
LoopVariable(previous, title, commands) ==
    IF commands = <<>> THEN previous
    ELSE LET t == substituteTitle(title, Head(commands))
         IN IF IsSome(t) THEN LoopVariable(Some(Head(commands)), Get(t), Tail(commands))
            ELSE Some(Head(commands))

\* cleanTitle: title.replace(/^\|\s*/, '').trim()
cleanTitle(title) ==
    IF title = <<>> THEN <<>>
    ELSE IF Head(title) = Bar THEN Trim(TrimStart(Tail(title)))
    ELSE Trim(title)

\* capitalizeString: first character upper-cased, the rest lower-cased.
capitalizeString(str) ==
    IF str = <<>> THEN <<>>
    ELSE <<ToUpperChar(str[1])>> \o [j \in 1..(Len(str) - 1) |-> ToLowerChar(str[j + 1])]

\* ------------------------------------------------------------------- URLs

\* A URL of the sitemap is [path, query]: path is the list of the segments
\* of its pathname after the leading slash ("/" is one empty segment), each
\* segment a string; every URL is on https://x.test.
ROOT == <<"R", "O", "O", "T">>

\* url.pathname.split('/').filter(Boolean)
Segments(url) == SelectSeq(<< <<>> >> \o url.path, LAMBDA seg : seg # <<>>)

\* parseSection: segments[0] || 'ROOT'
parseSection(url) ==
    IF Segments(url) = <<>> THEN ROOT ELSE Segments(url)[1]

\* The URL string handed to the matchers, split at its slashes:
\* "https:" "" "x.test" and the path segments, the query on the last one.
Href(url) ==
    LET n == Len(url.path)
    IN << <<"https:">>, <<>>, <<"x.test">> >>
         \o [j \in 1..n |-> IF j = n THEN url.path[j] \o url.query ELSE url.path[j]]

\* ------------------------------------------------------------------ globs

\* A glob is a list of segments; the segment Star ("*") matches one
\* non-empty segment and GlobStar ("**") any number of segments.
Star == <<"*">>

GlobStar == <<"**">>

RECURSIVE GlobMatch(_, _)
GlobMatch(glob, segs) ==
    IF glob = <<>> THEN segs = <<>>
    ELSE IF Head(glob) = GlobStar
         THEN \/ GlobMatch(Tail(glob), segs)
              \/ segs # <<>> /\ GlobMatch(glob, Tail(segs))
    ELSE IF segs = <<>> THEN FALSE
    ELSE IF Head(glob) = Star
         THEN Head(segs) # <<>> /\ GlobMatch(Tail(glob), Tail(segs))
    ELSE Head(glob) = Head(segs) /\ GlobMatch(Tail(glob), Tail(segs))

\* picomatch(patterns, { ignore }): some pattern matches and no ignore
\* pattern does; an empty pattern list matches nothing.
picomatch(patterns, ignore, url) ==
    /\ \E j \in 1..Len(patterns) : GlobMatch(patterns[j], Href(url))
    /\ ~\E j \in 1..Len(ignore) : GlobMatch(ignore[j], Href(url))

\* ------------------------------------------------- the site being crawled

Docs == <<"d", "o", "c", "s">>

Blog == <<"b", "l", "o", "g">>

UrlRoot == [path |-> << <<>> >>, query |-> <<>>]

UrlRoot2 == [path |-> << <<>> >>, query |-> <<"?p=2">>]

UrlA == [path |-> <<Docs, <<"a">>>>, query |-> <<>>]

UrlB == [path |-> <<Docs, <<"b">>>>, query |-> <<>>]

UrlC == [path |-> <<Blog, <<"c">>>>, query |-> <<>>]

Urls == {UrlRoot, UrlRoot2, UrlA, UrlB, UrlC}

\* A page whose first path segment is a number: /2024/x
Year == <<"2", "0", "2", "4">>

UrlY == [path |-> <<Year, <<"x">>>>, query |-> <<>>]

\* The index page of the docs section: /docs
UrlDocs == [path |-> <<Docs>>, query |-> <<>>]

\* The text of <head><title> a page is served with when it has one.
TitleText(url) ==
    CASE url = UrlRoot  -> <<"Home">>
      [] url = UrlRoot2 -> <<Bar, Space, "Home", Space, "2">>
      [] url = UrlA     -> <<"A", Space, Bar, Space, "Docs">>
      [] url = UrlB     -> <<Space, "B", Space>>
      [] url = UrlY     -> <<"News">>
      [] url = UrlDocs  -> <<"Docs", Space, "Guide">>
      [] OTHER          -> <<"C">>

\* The content of its description meta tag, when it has one.
DescriptionMeta(url) ==
    CASE url = UrlRoot -> Some(<<"The", Space, "site">>)
      [] url = UrlA    -> Some(<<"About", Space, "A">>)
      [] url = UrlC    -> Some(<<"About", Space, "C">>)
      [] OTHER         -> None

\* The text of <head><title> when the page is served without a title: no
\* title element at all, or one that holds only white space.
BlankTitle(url) == IF url \in {UrlRoot, UrlA} THEN <<Space, Space>> ELSE <<>>

\* What a fetch can come back with: a failed request (fetchHtml returns
\* null), a document without a title, the page.
Responses(url) ==
    { [failed |-> TRUE,  title |-> <<>>,            description |-> None],
      [failed |-> FALSE, title |-> BlankTitle(url), description |-> DescriptionMeta(url)],
      [failed |-> FALSE, title |-> TitleText(url),  description |-> DescriptionMeta(url)] }

\* The sitemaps of a site: the lists of at most MaxUrls distinct URLs of it.
Sitemaps(pages) ==
    UNION { { s \in [1..n -> pages] : \A j, k \in 1..n : s[j] = s[k] => j = k }
            : n \in 0..MaxUrls }

\* A site whose sitemap is not known: any list of its pages; a site whose
\* sitemap is the given list.
AnySitemapOf(pages) == [pages |-> pages, sitemap |-> None]

TheSitemap(urls) == [pages |-> {urls[k] : k \in 1..Len(urls)}, sitemap |-> Some(urls)]

\* What sitemap.fetch can return for a site.
SitemapsOf(site) ==
    IF IsSome(site.sitemap) THEN {Get(site.sitemap)} ELSE Sitemaps(site.pages)

\* ------------------------------------------------------------ the options

GlobDocs == <<GlobStar, Docs, Star>>

GlobBlog == <<GlobStar, Blog, Star>>

\* "/blog/*"
GlobPathBlog == << <<>>, Blog, Star >>

ExcludeOptions == { <<>>, <<GlobBlog>> }

IncludeOptions == { <<>>, <<GlobDocs, GlobBlog>> }

\* "s/Docs/Guide/g", "not-a-command", "s/abc"
CommandRewrite == <<"s", Slash, "Docs", Slash, "Guide", Slash, "g">>

CommandNotACommand == <<"not-a-command">>

CommandNoSlashes == <<"s", Slash, "abc">>

ReplaceTitleOptions ==
    { <<>>, <<CommandRewrite>>, <<CommandNotACommand>>, <<CommandNoSlashes>> }

\* "s/Guide/Manual/"
CommandRewriteAgain == <<"s", Slash, "Guide", Slash, "Manual", Slash>>

ReplaceTitleLists ==
    { <<CommandRewrite, CommandRewriteAgain>>,
      <<CommandRewriteAgain, CommandRewrite>>,
      <<CommandRewrite, CommandNoSlashes>> }

ConcurrencyOptions == { None, Some(1), Some(2) }

\* --concurrency as it is typed: "x", "0", "2", "-1"
ConcurrencyTexts == { <<"x">>, <<"0">>, <<"2">>, <<"-", "1">> }

\* .option('--concurrency <number>', ..., parseInt): absent, or what parseInt
\* makes of the text.
ParsedConcurrencyOptions == { None } \cup { parseInt(text) : text \in ConcurrencyTexts }

TitleOptions == { None, Some(<<"My", Space, "site">>) }

DescriptionOptions == { None, Some(<<"My", Space, "description">>) }

\* ------------------------------------------------------------------ state

VARIABLES
    web,             \* the site the sitemap is the sitemap of
    mode,            \* "gen" or "genFull": the action that was invoked
    options,         \* this.opts()
    pc,              \* "init", "sitemap" (awaiting sitemap.fetch), "crawl"
                     \* (awaiting processInBatches), "done"
    sitemapStatus,   \* "none", "pending", "ok", "failed": the call of sitemap.fetch
    sites,           \* sites.sites
    i,               \* the loop variable i of processInBatches
    pipe,            \* per position of sites, the promise of its processor call
    fetches,         \* per position of sites, the number of calls of fetchHtml
    results,         \* the array results of processInBatches
    batchStatus,     \* "none", "pending", "returned", "rejected": its promise
    returned,        \* the array it returned
    skipped,         \* genFull: the array skipped
    pageInfos,       \* genFull: the array pageInfos
    settled,         \* the positions of sites in the order their processor calls
                     \* settled (history of the completions processedItems counts)
    html,            \* per position of sites, `const html = await fetchHtml(url)`
                     \* once the call has returned
    command,         \* gen: the global the loop `for (command of replaceTitle)`
                     \* assigns to
    stdout           \* the documents written by console.log

vars == <<web, mode, options, pc, sitemapStatus, sites, i, pipe, fetches, results,
          batchStatus, returned, skipped, pageInfos, settled, html, command, stdout>>

\* JavaScript truthiness of an optional string.
Truthy(m) == IsSome(m) /\ Get(m) # <<>>

\* ---------------------------------------------------------- the processor

\* The values a processor call resolves with.
NullResult == [kind |-> "null"]

TrueResult == [kind |-> "true"]

Idle == [state |-> "idle", value |-> NullResult]

Fetching == [state |-> "fetching", value |-> NullResult]

Resolved(v) == [state |-> "resolved", value |-> v]

Rejected == [state |-> "rejected", value |-> NullResult]

\* const isExcluded = picomatch(excludePaths)
isExcluded(url) == picomatch(options.excludePath, <<>>, url)

\* const isIncluded = picomatch(includePaths, { ignore: excludePaths })
isIncluded(url) == picomatch(options.includePath, options.excludePath, url)

\* Mutant of FilterVerdict: the include check without its
\* `includePaths.length > 0` guard.
FilterVerdictUnguarded(url) ==
    IF isExcluded(url) THEN "excluded"
    ELSE IF ~isIncluded(url) THEN "not included"
    ELSE "fetch"

\* processUrl up to its first await: the reason it returns null for, or
\* "fetch" when it calls fetchHtml.
FilterVerdict(url) ==
    IF isExcluded(url) THEN "excluded"
    ELSE IF Len(options.includePath) > 0 /\ ~isIncluded(url) THEN "not included"
    ELSE "fetch"

\* Mutant of getTitle: the text of the title element without .trim().
getTitleUntrimmed(document) == document.title

\* getTitle: $('head > title').text().trim()
getTitle(document) == Trim(document.title)

\* getDescription: the content of the description meta tag, or undefined.
getDescription(document) == document.description

\* Mutant of AfterFetch: fetchHtml without its try / catch, so that a failed
\* request throws in processUrl.
AfterFetchFailureThrows(url, r) ==
    IF r.failed THEN [kind |-> "throw"]
    ELSE IF getTitle(r) = <<>> THEN [kind |-> "skip", reason |-> "no title"]
    ELSE LET title == ApplyCommands(getTitle(r), options.replaceTitle)
         IN IF ~IsSome(title) THEN [kind |-> "throw"]
            ELSE [kind        |-> "page",
                  title       |-> cleanTitle(Get(title)),
                  url         |-> url,
                  description |-> getDescription(r),
                  section     |-> parseSection(url)]

\* processUrl after fetchHtml came back with the response r.
AfterFetch(url, r) ==
    IF r.failed THEN [kind |-> "skip", reason |-> "fetch failed"]
    ELSE IF getTitle(r) = <<>> THEN [kind |-> "skip", reason |-> "no title"]
    ELSE LET title == ApplyCommands(getTitle(r), options.replaceTitle)
         IN IF ~IsSome(title) THEN [kind |-> "throw"]
            ELSE [kind        |-> "page",
                  title       |-> cleanTitle(Get(title)),
                  url         |-> url,
                  description |-> getDescription(r),
                  section     |-> parseSection(url)]

\* ------------------------------------------------------- processInBatches

\* options.concurrency || 5
DefaultConcurrency == 5

Concurrency ==
    IF /\ IsSome(options.concurrency)
       /\ ~IsNaN(options.concurrency)
       /\ Get(options.concurrency) # 0
    THEN Get(options.concurrency) ELSE DefaultConcurrency

\* Array.prototype.slice: an index counts from the end when it is negative,
\* and is clamped to the array.
SliceIndex(x, n) == IF x < 0 THEN (IF n + x < 0 THEN 0 ELSE n + x) ELSE Min(x, n)

\* Mutant of Batch: items.slice(i, i + concurrency + 1).
BatchOneMore(urls, from) == (from + 1)..Min(from + Concurrency + 1, Len(urls))

\* items.slice(i, i + concurrency), as the positions (from 1) of the items.
Batch(urls, from) ==
    (SliceIndex(from, Len(urls)) + 1)..SliceIndex(from + Concurrency, Len(urls))

\* batch.map(async (item, index) => processor(item, i + index)): every
\* processor of the batch runs to its first await.
Launch(p, urls, from) ==
    [k \in 1..Len(urls) |->
        IF k \in Batch(urls, from)
        THEN IF FilterVerdict(urls[k]) = "fetch" THEN Fetching ELSE Resolved(NullResult)
        ELSE p[k]]

LaunchFetches(f, urls, from) ==
    [k \in 1..Len(urls) |->
        IF k \in Batch(urls, from) /\ FilterVerdict(urls[k]) = "fetch"
        THEN f[k] + 1 ELSE f[k]]

\* The positions among lo..hi whose processor returns null before its first
\* await, in the order map calls the processors.
RECURSIVE LaunchRejects(_, _, _)
LaunchRejects(urls, lo, hi) ==
    IF lo > hi THEN <<>>
    ELSE (IF FilterVerdict(urls[lo]) = "fetch" THEN <<>> ELSE <<lo>>)
         \o LaunchRejects(urls, lo + 1, hi)

BatchRejects(urls, from) ==
    LaunchRejects(urls, SliceIndex(from, Len(urls)) + 1,
                  SliceIndex(from + Concurrency, Len(urls)))

\* genFull: what those processors push onto skipped.
BatchSkips(urls, from) ==
    IF mode = "genFull"
    THEN [j \in 1..Len(BatchRejects(urls, from)) |->
            [url    |-> urls[BatchRejects(urls, from)[j]],
             reason |-> FilterVerdict(urls[BatchRejects(urls, from)[j]])]]
    ELSE <<>>

\* Mutant of BatchResults: the values in the order the processors settled
\* (append on completion).
BatchResultsAsSettled(p, urls, from) ==
    LET order == SelectSeq(settled, LAMBDA k : k \in (from + 1)..Len(urls))
    IN [j \in 1..Len(order) |-> p[order[j]].value]

\* const batchResults = await Promise.all(batchPromises): the values in the
\* order of the batch.
BatchResults(p, urls, from) ==
    [j \in 1..Cardinality(Batch(urls, from)) |-> p[SliceIndex(from, Len(urls)) + j].value]

\* Mutant of AllResolved: Promise.race in the place of Promise.all.
AnyResolved(p, urls, from) == \E k \in Batch(urls, from) : p[k].state = "resolved"

\* await Promise.all(batchPromises) resumes: every promise of the batch has
\* resolved.
AllResolved(p, urls, from) == \A k \in Batch(urls, from) : p[k].state = "resolved"

\* i += concurrency
NextStart(from) == from + Concurrency

\* Mutant of PushAll: results.unshift(...batchResults).
PushAllInFront(rs, batchResults) == batchResults \o rs

\* results.push(...batchResults)
PushAll(rs, batchResults) == rs \o batchResults

\* results.filter(Boolean)
FilterBoolean(rs) == SelectSeq(rs, LAMBDA v : v.kind # "null")

\* -------------------------------------------------------------- documents

\* A document is the list of its lines; a line is a record with its kind
\* and the values interpolated into it.

\* `${value}` of an optional string: an absent one prints as "undefined".
Interpolate(m) == IF IsSome(m) THEN Get(m) ELSE <<"undefined">>

\* The object `sections`, as the list of its [key, lines] entries in the
\* order `for (const section in sections)` visits them: the keys that are
\* array indices first, in ascending order, then the others in the order
\* they were created.
IsArrayIndex(key) ==
    /\ key # <<>>
    /\ \A j \in 1..Len(key) : key[j] \in Digits
    /\ (Len(key) > 1 => key[1] # "0")

HasKey(object, key) == \E j \in 1..Len(object) : object[j].key = key

\* Where a new key goes in the enumeration order.
KeyPosition(object, key) ==
    IF IsArrayIndex(key)
    THEN 1 + Cardinality({j \in 1..Len(object) :
                            /\ IsArrayIndex(object[j].key)
                            /\ NumberOf(object[j].key) < NumberOf(key)})
    ELSE Len(object) + 1

\* sections[section] ||= []; sections[section].push(line)
AddLine(object, key, line) ==
    IF HasKey(object, key)
    THEN [j \in 1..Len(object) |->
            IF object[j].key = key
            THEN [key |-> key, lines |-> Append(object[j].lines, line)]
            ELSE object[j]]
    ELSE LET at == KeyPosition(object, key)
         IN SubSeq(object, 1, at - 1)
              \o << [key |-> key, lines |-> <<line>>] >>
              \o SubSeq(object, at, Len(object))

\* for (const result of results) { ... sections[section].push(...) }
RECURSIVE Organize(_, _)
Organize(object, rs) ==
    IF rs = <<>> THEN object
    ELSE Organize(AddLine(object, Head(rs).section,
                          [title       |-> Head(rs).title,
                           url         |-> Head(rs).url,
                           description |-> Head(rs).description]),
                  Tail(rs))

\* const root = sections.ROOT || []
RootLines(object) ==
    IF HasKey(object, ROOT)
    THEN (CHOOSE e \in {object[j] : j \in 1..Len(object)} : e.key = ROOT).lines
    ELSE <<>>

\* Mutant of RootEntry: the last entry of root.
RootEntryLast(root) == root[Len(root)]

\* root[0], the entry the header is taken from.
RootEntry(root) == root[1]

\* delete sections.ROOT
DeleteRoot(object) == SelectSeq(object, LAMBDA e : e.key # ROOT)

DefaultTitle == <<"Documentation">>

DefaultDescription == <<"Generated", Space, "documentation">>

\* `# ${options.title || (root.length > 0 ? root[0].title : defaultTitle)}`
HeaderTitle(root) ==
    IF Truthy(options.title) THEN Get(options.title)
    ELSE IF Len(root) > 0 THEN RootEntry(root).title
    ELSE DefaultTitle

\* `> ${options.description || (root.length > 0 ? root[0].description : defaultDescription)}`
HeaderDescription(root) ==
    IF Truthy(options.description) THEN Get(options.description)
    ELSE IF Len(root) > 0 THEN Interpolate(RootEntry(root).description)
    ELSE DefaultDescription

\* `## ${capitalizeString(section)}` and one bullet per line of the section.
SectionLines(entry) ==
    << [kind |-> "heading", key |-> entry.key, text |-> capitalizeString(entry.key)] >>
      \o [j \in 1..Len(entry.lines) |->
            [kind        |-> "bullet",
             title       |-> entry.lines[j].title,
             url         |-> entry.lines[j].url,
             description |-> entry.lines[j].description]]

RECURSIVE Flatten(_)
Flatten(seqs) == IF seqs = <<>> THEN <<>> ELSE Head(seqs) \o Flatten(Tail(seqs))

\* gen, from `let output = ''` to console.log(output).
IndexDocument(object) ==
    LET root == RootLines(object)
        rest == DeleteRoot(object)
    IN << [kind |-> "title", text |-> HeaderTitle(root)],
          [kind |-> "description", text |-> HeaderDescription(root)] >>
         \o Flatten([j \in 1..Len(rest) |-> SectionLines(rest[j])])

FullDefaultTitle == <<"Full", Space, "Documentation">>

\* genFull, from `// Build TOC` to console.log(output).
FullDocument(infos, skips) ==
    << [kind |-> "title",
        text |-> IF Truthy(options.title) THEN Get(options.title) ELSE FullDefaultTitle],
       [kind |-> "tocHeading"] >>
      \o [j \in 1..Len(infos) |-> [kind |-> "toc", title |-> infos[j].title]]
      \o [j \in 1..Len(infos) |->
            [kind        |-> "page",
             title       |-> infos[j].title,
             url         |-> infos[j].url,
             description |-> infos[j].description]]
      \o (IF Len(skips) > 0
          THEN << [kind |-> "skippedHeading"] >>
                 \o [j \in 1..Len(skips) |->
                       [kind |-> "skipped", url |-> skips[j].url, reason |-> skips[j].reason]]
          ELSE <<>>)

\* ---------------------------------------------------------------- actions

\* The state when the action is called on a site with one of the given
\* options.
InitOn(site, modes, optionSpace) ==
    /\ web = site
    /\ mode \in modes
    /\ options \in optionSpace
    /\ pc = "init"
    /\ sitemapStatus = "none"
    /\ sites = <<>>
    /\ i = 0
    /\ pipe = <<>>
    /\ fetches = <<>>
    /\ results = <<>>
    /\ batchStatus = "none"
    /\ returned = <<>>
    /\ skipped = <<>>
    /\ pageInfos = <<>>
    /\ settled = <<>>
    /\ html = <<>>
    /\ command = None
    /\ stdout = <<>>

InitWith(pages, modes, optionSpace) == InitOn(AnySitemapOf(pages), modes, optionSpace)

\* Either action, every filter, rewriting and concurrency option, without
\* --title and --description, on a site with one root page.
Init ==
    InitWith({UrlRoot, UrlA, UrlB, UrlC}, {"gen", "genFull"},
             [excludePath  : ExcludeOptions,
              includePath  : IncludeOptions,
              replaceTitle : ReplaceTitleOptions,
              concurrency  : ConcurrencyOptions,
              title        : {None},
              description  : {None}])

\* Either action with every --title and --description option, without
\* filters, on a site with two root pages and two other sections.
InitHeader ==
    InitWith(Urls \ {UrlB}, {"gen", "genFull"},
             [excludePath  : {<<>>},
              includePath  : {<<>>},
              replaceTitle : {<<>>, <<CommandNoSlashes>>},
              concurrency  : {None, Some(2)},
              title        : TitleOptions,
              description  : DescriptionOptions])

\* Either action without filters on a site with three sections, one of
\* them named by a number.
InitSections ==
    InitWith({UrlA, UrlC, UrlY}, {"gen", "genFull"},
             [excludePath  : {<<>>},
              includePath  : {<<>>},
              replaceTitle : {<<>>, <<CommandNoSlashes>>},
              concurrency  : {None, Some(1)},
              title        : {None},
              description  : {None}])

\* Either action on the sitemap /, /docs/a, /docs/b, /blog/c with
\* --exclude-path "/blog/*".
InitScenario ==
    InitOn(TheSitemap(<<UrlRoot, UrlA, UrlB, UrlC>>), {"gen", "genFull"},
           [excludePath  : {<<GlobPathBlog>>},
            includePath  : {<<>>},
            replaceTitle : {<<>>, <<CommandNoSlashes>>},
            concurrency  : ConcurrencyOptions,
            title        : {None},
            description  : {None}])

\* Either action with lists of two --replace-title commands, without
\* filters.
InitTitles ==
    InitWith({UrlA, UrlB, UrlDocs}, {"gen", "genFull"},
             [excludePath  : {<<>>},
              includePath  : {<<>>},
              replaceTitle : ReplaceTitleLists,
              concurrency  : {None, Some(2)},
              title        : {None},
              description  : {None}])

\* Either action with every way of giving --concurrency, without filters.
InitConcurrency ==
    InitWith({UrlA, UrlB, UrlC}, {"gen", "genFull"},
             [excludePath  : {<<>>},
              includePath  : {<<>>},
              replaceTitle : {<<>>, <<CommandNoSlashes>>},
              concurrency  : ParsedConcurrencyOptions,
              title        : {None},
              description  : {None}])

\* gen / genFull up to `await sitemap.fetch(sitemapUrl)`.
Start ==
    /\ pc = "init"
    /\ pc' = "sitemap"
    /\ sitemapStatus' = "pending"
    /\ UNCHANGED <<web, mode, options, sites, i, pipe, fetches, results, batchStatus,
                   returned, skipped, pageInfos, settled, html, command, stdout>>

\* What the catch block of the action, and the code after it, write to
\* standard output: gen goes on to print the document of the sections it
\* has, genFull only reports the failure on the spinner.
AfterCatch == IF mode = "gen" THEN <<IndexDocument(<<>>)>> ELSE <<>>

\* sitemap.fetch throws: the catch block.
SitemapFails ==
    /\ pc = "sitemap"
    /\ sitemapStatus' = "failed"
    /\ stdout' = stdout \o AfterCatch
    /\ pc' = "done"
    /\ UNCHANGED <<web, mode, options, sites, i, pipe, fetches, results, batchStatus,
                   returned, skipped, pageInfos, settled, html, command>>

\* sitemap.fetch returns: processInBatches is called and starts its first
\* batch.
SitemapReturns ==
    /\ pc = "sitemap"
    /\ \E urls \in SitemapsOf(web) :
          /\ sites' = urls
          /\ pipe' = Launch([k \in 1..Len(urls) |-> Idle], urls, 0)
          /\ fetches' = LaunchFetches([k \in 1..Len(urls) |-> 0], urls, 0)
          /\ skipped' = skipped \o BatchSkips(urls, 0)
          /\ settled' = settled \o BatchRejects(urls, 0)
          /\ html' = [k \in 1..Len(urls) |-> None]
    /\ sitemapStatus' = "ok"
    /\ i' = 0
    /\ batchStatus' = "pending"
    /\ pc' = "crawl"
    /\ UNCHANGED <<web, mode, options, results, returned, pageInfos, command, stdout>>

\* Mutant of PageSkipped: a failed fetch is tried a second time.
PageSkippedOrRetried(k) ==
    /\ k \in DOMAIN pipe
    /\ pipe[k].state = "fetching"
    /\ \E r \in Responses(sites[k]) :
          LET out == AfterFetch(sites[k], r)
          IN /\ out.kind = "skip"
             /\ IF r.failed /\ fetches[k] < 2
                THEN /\ fetches' = [fetches EXCEPT ![k] = @ + 1]
                     /\ UNCHANGED <<skipped, html, pipe, settled>>
                ELSE /\ skipped' = IF mode = "genFull"
                                   THEN Append(skipped, [url    |-> sites[k],
                                                         reason |-> out.reason])
                                   ELSE skipped
                     /\ html' = [html EXCEPT ![k] = Some(r)]
                     /\ pipe' = [pipe EXCEPT ![k] = Resolved(NullResult)]
                     /\ settled' = Append(settled, k)
                     /\ UNCHANGED fetches
    /\ UNCHANGED <<web, mode, options, pc, sitemapStatus, sites, i, results,
                   batchStatus, returned, pageInfos, command, stdout>>

\* A fetch comes back and the page is skipped: fetch failed, or no title.
PageSkipped(k) ==
    /\ k \in DOMAIN pipe
    /\ pipe[k].state = "fetching"
    /\ \E r \in Responses(sites[k]) :
          LET out == AfterFetch(sites[k], r)
          IN /\ out.kind = "skip"
             /\ skipped' = IF mode = "genFull"
                           THEN Append(skipped, [url |-> sites[k], reason |-> out.reason])
                           ELSE skipped
             /\ html' = [html EXCEPT ![k] = Some(r)]
    /\ pipe' = [pipe EXCEPT ![k] = Resolved(NullResult)]
    /\ settled' = Append(settled, k)
    /\ UNCHANGED <<web, mode, options, pc, sitemapStatus, sites, i, fetches, results,
                   batchStatus, returned, pageInfos, command, stdout>>

\* gen assigns the commands to the global `command`; genFull declares the
\* loop variable with const.
CommandAfter(title) ==
    IF mode = "gen" THEN LoopVariable(command, title, options.replaceTitle) ELSE command

\* A fetch comes back and the page is processed to its end.
PageProcessed(k) ==
    /\ k \in DOMAIN pipe
    /\ pipe[k].state = "fetching"
    /\ \E r \in Responses(sites[k]) :
          LET out == AfterFetch(sites[k], r)
          IN /\ out.kind = "page"
             /\ IF mode = "genFull"
                THEN /\ pageInfos' = Append(pageInfos, [title       |-> out.title,
                                                        url         |-> out.url,
                                                        description |-> out.description])
                     /\ pipe' = [pipe EXCEPT ![k] = Resolved(TrueResult)]
                ELSE /\ pageInfos' = pageInfos
                     /\ pipe' = [pipe EXCEPT ![k] = Resolved(out)]
             /\ html' = [html EXCEPT ![k] = Some(r)]
             /\ command' = CommandAfter(getTitle(r))
    /\ settled' = Append(settled, k)
    /\ UNCHANGED <<web, mode, options, pc, sitemapStatus, sites, i, fetches, results,
                   batchStatus, returned, skipped, stdout>>

\* A fetch comes back and substituteTitle throws: the processor's promise
\* rejects; the first rejection of a batch rejects Promise.all, then
\* processInBatches, and the catch block of the action runs.
PageThrows(k) ==
    /\ k \in DOMAIN pipe
    /\ pipe[k].state = "fetching"
    /\ \E r \in Responses(sites[k]) :
          /\ AfterFetch(sites[k], r).kind = "throw"
          /\ html' = [html EXCEPT ![k] = Some(r)]
          /\ command' = CommandAfter(getTitle(r))
    /\ pipe' = [pipe EXCEPT ![k] = Rejected]
    /\ settled' = Append(settled, k)
    /\ IF pc = "crawl"
       THEN /\ batchStatus' = "rejected"
            /\ stdout' = stdout \o AfterCatch
            /\ pc' = "done"
       ELSE UNCHANGED <<batchStatus, stdout, pc>>
    /\ UNCHANGED <<web, mode, options, sitemapStatus, sites, i, fetches, results,
                   returned, skipped, pageInfos>>

\* Every promise of the batch has resolved: Promise.all resolves, the batch
\* results are pushed, and the loop starts the next batch if there is one.
\* A loop whose i goes down never ends: the model follows it for MaxSpins
\* rounds below 0.
BatchDone ==
    /\ pc = "crawl"
    /\ i < Len(sites)
    /\ i > 0 - MaxSpins
    /\ AllResolved(pipe, sites, i)
    /\ results' = PushAll(results, BatchResults(pipe, sites, i))
    /\ i' = NextStart(i)
    /\ IF i' < Len(sites)
       THEN /\ pipe' = Launch(pipe, sites, i')
            /\ fetches' = LaunchFetches(fetches, sites, i')
            /\ skipped' = skipped \o BatchSkips(sites, i')
            /\ settled' = settled \o BatchRejects(sites, i')
       ELSE UNCHANGED <<pipe, fetches, skipped, settled>>
    /\ UNCHANGED <<web, mode, options, pc, sitemapStatus, sites, batchStatus, returned,
                   pageInfos, html, command, stdout>>

\* The loop is over: processInBatches returns results.filter(Boolean), and
\* the action builds its document and prints it.
Finish ==
    /\ pc = "crawl"
    /\ i >= Len(sites)
    /\ returned' = FilterBoolean(results)
    /\ batchStatus' = "returned"
    /\ stdout' = Append(stdout, IF mode = "gen"
                                THEN IndexDocument(Organize(<<>>, returned'))
                                ELSE FullDocument(pageInfos, skipped))
    /\ pc' = "done"
    /\ UNCHANGED <<web, mode, options, sitemapStatus, sites, i, pipe, fetches, results,
                   skipped, pageInfos, settled, html, command>>

Next ==
    \/ Start
    \/ SitemapFails
    \/ SitemapReturns
    \/ \E k \in 1..(MaxUrls + 1) : PageSkipped(k)
    \/ \E k \in 1..(MaxUrls + 1) : PageProcessed(k)
    \/ \E k \in 1..(MaxUrls + 1) : PageThrows(k)
    \/ BatchDone
    \/ Finish

Spec == Init /\ [][Next]_vars

SpecHeader == InitHeader /\ [][Next]_vars

SpecSections == InitSections /\ [][Next]_vars

SpecScenario == InitScenario /\ [][Next]_vars

SpecTitles == InitTitles /\ [][Next]_vars

SpecConcurrency == InitConcurrency /\ [][Next]_vars

\* ----------------------------------------------------------------- claims

\* The position of a URL in the sitemap (its URLs are distinct).
IndexOf(url) == CHOOSE k \in 1..Len(sites) : sites[k] = url

\* The processor calls that are in flight: started and not settled, which
\* is: awaiting fetchHtml.
InFlight == {k \in DOMAIN pipe : pipe[k].state = "fetching"}

Launched(k) == pipe[k].state # "idle"

\* The lines of a kind in the document that was printed.
Printed == stdout # <<>>

LinesOf(kind) == SelectSeq(stdout[1], LAMBDA line : line.kind = kind)

\* C1: for every concurrency C >= 1, at no instant are more than C per-URL
\* pipelines (and hence more than C calls of fetchHtml) in flight, whatever
\* the order in which the fetches come back.
C1_ConcurrencyCeiling ==
    Concurrency >= 1 => Cardinality(InFlight) <= Concurrency

\* C1 witness: a sitemap longer than C with C pipelines in flight, after an
\* earlier pipeline of the run has already settled.
C1_Witness ==
    /\ Len(sites) > Concurrency
    /\ Cardinality(InFlight) = Concurrency
    /\ settled # <<>>

\* C2 as stated: the sequence processInBatches returns is as long as the
\* input and its k-th element is the outcome of the k-th URL.
C2_SameLengthAsInput ==
    batchStatus = "returned" =>
        /\ Len(returned) = Len(sites)
        /\ \A k \in 1..Len(returned) : returned[k] = pipe[k].value

\* The positions whose outcome is not null, and the j-th of them.
Kept == {k \in DOMAIN pipe : pipe[k].value.kind # "null"}

NthKept(j) == CHOOSE k \in Kept : Cardinality({m \in Kept : m < k}) = j - 1

\* C2 amended: the sequence processInBatches returns holds the outcomes that
\* are not null, in the order of their URLs in the input; the null outcomes
\* are dropped, so it is as long as the number of URLs that were not skipped.
C2_NonNullOutcomesInOrder ==
    batchStatus = "returned" =>
        /\ Len(returned) = Cardinality(Kept)
        /\ \A j \in 1..Len(returned) : returned[j] = pipe[NthKept(j)].value

\* C2 witness: a returned sequence of two page results from a sitemap of
\* three URLs, one of which was skipped.
C2_Witness ==
    /\ batchStatus = "returned"
    /\ mode = "gen"
    /\ Len(sites) = 3
    /\ Len(returned) = 2
    /\ returned[1] # returned[2]

\* The number of PageResults and of SkipRecords the run holds for position k
\* (gen has no skip list: its skip marker is the null outcome).
PageCount(k) ==
    IF mode = "genFull"
    THEN Cardinality({j \in 1..Len(pageInfos) : pageInfos[j].url = sites[k]})
    ELSE IF pipe[k].state = "resolved" /\ pipe[k].value.kind = "page" THEN 1 ELSE 0

SkipCount(k) ==
    IF mode = "genFull"
    THEN Cardinality({j \in 1..Len(skipped) : skipped[j].url = sites[k]})
    ELSE IF pipe[k].state = "resolved" /\ pipe[k].value.kind = "null" THEN 1 ELSE 0

CrawlEnded == batchStatus \in {"returned", "rejected"}

\* C3: when the crawl stage ends, every URL of the sitemap is accounted for
\* by exactly one outcome, a PageResult or a SkipRecord, never both and never
\* neither.
C3_ExactlyOneOutcome ==
    CrawlEnded => \A k \in 1..Len(sites) : PageCount(k) + SkipCount(k) = 1

\* C4: an error inside one URL's pipeline never propagates out of the batch
\* scheduler: processInBatches never rejects, and once the run is over every
\* URL of the sitemap has been processed.
C4_ErrorsStayInThePipeline ==
    /\ batchStatus # "rejected"
    /\ (pc = "done" /\ sitemapStatus = "ok" => \A k \in 1..Len(sites) : Launched(k))

\* Whether a sequence of URLs is in sitemap order.
InSitemapOrder(urls) ==
    \A p, q \in 1..Len(urls) : p < q => IndexOf(urls[p]) < IndexOf(urls[q])

\* C5: in full mode the pages of the table of contents and of the body are
\* in the order of their URLs in the sitemap, whatever the order in which
\* the pipelines of a batch complete.
C5_FullModeInSitemapOrder ==
    mode = "genFull" /\ Printed =>
        /\ InSitemapOrder([j \in 1..Len(LinesOf("page")) |-> LinesOf("page")[j].url])
        /\ [j \in 1..Len(LinesOf("toc")) |-> LinesOf("toc")[j].title]
             = [j \in 1..Len(LinesOf("page")) |-> LinesOf("page")[j].title]

\* C6: in index mode the page results handed to the aggregator are in the
\* order of their URLs in the sitemap, and so are the bullets under each
\* section heading, whatever the order in which the pipelines complete.
C6_IndexModeInSitemapOrder ==
    mode = "gen" =>
        /\ InSitemapOrder([j \in 1..Len(returned) |-> returned[j].url])
        /\ Printed =>
              \A p, q \in 1..Len(LinesOf("bullet")) :
                  /\ p < q
                  /\ parseSection(LinesOf("bullet")[p].url)
                       = parseSection(LinesOf("bullet")[q].url)
                  => IndexOf(LinesOf("bullet")[p].url) < IndexOf(LinesOf("bullet")[q].url)

\* C6 witness: a printed index with two bullets of one section whose
\* pipelines completed in the opposite order.
C6_Witness ==
    /\ mode = "gen"
    /\ Printed
    /\ \E p, q \in 1..Len(LinesOf("bullet")) :
          /\ p < q
          /\ parseSection(LinesOf("bullet")[p].url) = parseSection(LinesOf("bullet")[q].url)
          /\ \E a, b \in 1..Len(settled) :
                /\ a < b
                /\ sites[settled[a]] = LinesOf("bullet")[q].url
                /\ sites[settled[b]] = LinesOf("bullet")[p].url

\* Whether a command has the s/pattern/replacement/flags shape.
WellFormed(cmd) == CommandMatches(cmd)

NetworkActivity ==
    \/ sitemapStatus # "none"
    \/ \E k \in DOMAIN fetches : fetches[k] > 0

\* C7: a run configured with a malformed title-substitution command (one
\* without the s/pattern/replacement/flags shape) has no network activity:
\* no sitemap fetch and no page fetch.
C7_MalformedCommandFailsFast ==
    (\E j \in 1..Len(options.replaceTitle) : ~WellFormed(options.replaceTitle[j]))
        => ~NetworkActivity

\* C8: in both modes, a run whose sitemap fetch fails still writes a
\* document to standard output, with the default or the configured title
\* (and, in index mode, description).
C8_SitemapFailureStillPrints ==
    sitemapStatus = "failed" /\ pc = "done" =>
        /\ Len(stdout) = 1
        /\ stdout[1][1] =
              [kind |-> "title",
               text |-> IF Truthy(options.title) THEN Get(options.title)
                        ELSE IF mode = "gen" THEN DefaultTitle ELSE FullDefaultTitle]
        /\ mode = "gen" =>
              stdout[1][2] =
                 [kind |-> "description",
                  text |-> IF Truthy(options.description) THEN Get(options.description)
                           ELSE DefaultDescription]

\* The filter of the specification: no exclude pattern matches, and the
\* include patterns are empty or one of them matches.
MatchesSome(patterns, url) ==
    \E j \in 1..Len(patterns) : GlobMatch(patterns[j], Href(url))

Eligible(url) ==
    /\ ~MatchesSome(options.excludePath, url)
    /\ (options.includePath = <<>> \/ MatchesSome(options.includePath, url))

SkipReasons(url) ==
    {skipped[j].reason : j \in {m \in 1..Len(skipped) : skipped[m].url = url}}

\* C9: of the URLs whose pipeline has run, the ones fetched are exactly the
\* ones that match no exclude pattern and, when there are include patterns,
\* match one of them; no fetch is ever started for a URL the filter rejects,
\* also when it matches an include pattern as well as an exclude pattern;
\* full mode records a rejected URL as 'excluded' when an exclude pattern
\* matches it and as 'not included' otherwise.
C9_FetchedIffEligible ==
    \A k \in DOMAIN pipe :
        /\ fetches[k] > 0 => Eligible(sites[k])
        /\ Launched(k) => (fetches[k] > 0 <=> Eligible(sites[k]))
        /\ mode = "genFull" /\ Launched(k) /\ ~Eligible(sites[k]) =>
              SkipReasons(sites[k]) =
                 IF MatchesSome(options.excludePath, sites[k])
                 THEN {"excluded"} ELSE {"not included"}

\* C9 witness: a batch has been started that holds a URL matching both an
\* exclude and an include pattern, which is not fetched, a URL matching no
\* include pattern, which is not fetched, and a URL that is fetched.
C9_Witness ==
    /\ \E k \in DOMAIN pipe :
          /\ Launched(k)
          /\ MatchesSome(options.excludePath, sites[k])
          /\ MatchesSome(options.includePath, sites[k])
          /\ fetches[k] = 0
    /\ \E k \in DOMAIN pipe :
          /\ Launched(k)
          /\ ~MatchesSome(options.excludePath, sites[k])
          /\ ~MatchesSome(options.includePath, sites[k])
          /\ fetches[k] = 0
    /\ \E k \in DOMAIN pipe : fetches[k] > 0

\* The page results of the ROOT section, in result order.
RootResults == SelectSeq(returned, LAMBDA r : r.section = ROOT)

\* C10: the index document has no section heading for the ROOT key and no
\* bullet for a page whose section is ROOT; its title is --title when given
\* and otherwise the title of the first ROOT page result, and its
\* description is --description when given and otherwise the description of
\* the first ROOT page result.
C10_RootFeedsTheHeader ==
    mode = "gen" /\ Printed =>
        /\ \A j \in 1..Len(LinesOf("heading")) : LinesOf("heading")[j].key # ROOT
        /\ \A j \in 1..Len(LinesOf("bullet")) :
              parseSection(LinesOf("bullet")[j].url) # ROOT
        /\ Truthy(options.title) => LinesOf("title")[1].text = Get(options.title)
        /\ Truthy(options.description) =>
              LinesOf("description")[1].text = Get(options.description)
        /\ ~Truthy(options.title) /\ RootResults # <<>> =>
              LinesOf("title")[1].text = RootResults[1].title
        /\ ~Truthy(options.description) /\ RootResults # <<>> =>
              LinesOf("description")[1].text = Interpolate(RootResults[1].description)

\* C10 witness: a printed index built from two ROOT pages with different
\* titles and a page of another section, --title not given and
\* --description given.
C10_Witness ==
    /\ mode = "gen"
    /\ Printed
    /\ Len(RootResults) = 2
    /\ RootResults[1].title # RootResults[2].title
    /\ Len(LinesOf("bullet")) = 1
    /\ ~Truthy(options.title)
    /\ Truthy(options.description)

\* The distinct members of a list, in the order of their first occurrence.
RECURSIVE FirstSeen(_)
FirstSeen(seq) ==
    IF seq = <<>> THEN <<>>
    ELSE LET before == FirstSeen(SubSeq(seq, 1, Len(seq) - 1))
         IN IF \E j \in 1..Len(before) : before[j] = seq[Len(seq)]
            THEN before
            ELSE Append(before, seq[Len(seq)])

\* The section keys of the page results that were returned, ROOT apart.
ReturnedSections ==
    LET others == SelectSeq(returned, LAMBDA r : r.section # ROOT)
    IN [j \in 1..Len(others) |-> others[j].section]

HeadingKeys == [j \in 1..Len(LinesOf("heading")) |-> LinesOf("heading")[j].key]

\* C11: the index document emits its sections in the order in which each
\* section key was first seen among the page results, also when a key is a
\* digit string such as "2024".
C11_SectionsInFirstSeenOrder ==
    mode = "gen" /\ batchStatus = "returned" => HeadingKeys = FirstSeen(ReturnedSections)

\* fetchHtml returned null for the URL at position k.
FetchFailed(k) == IsSome(html[k]) /\ Get(html[k]).failed

\* C12: a URL whose fetch fails does not keep the other URLs of its chunk
\* or the later chunks from being processed: its processor returns null
\* instead of throwing, the loop can go on once the chunk has no fetch in
\* flight, and a scheduler that returns has run every pipeline; a full
\* document lists the URL under Skipped Pages with the reason
\* "fetch failed" and has no page entry for it.
C12_FailedFetchIsOnlySkipped ==
    \A k \in DOMAIN html :
        FetchFailed(k) =>
            /\ pipe[k] = Resolved(NullResult)
            /\ pc = "crawl" /\ InFlight \cap Batch(sites, i) = {} =>
                  AllResolved(pipe, sites, i)
            /\ batchStatus = "returned" =>
                  \A j \in DOMAIN pipe : pipe[j].state = "resolved"
            /\ \A j \in 1..Len(pageInfos) : pageInfos[j].url # sites[k]
            /\ mode = "genFull" /\ Printed =>
                  /\ \E j \in 1..Len(LinesOf("skipped")) :
                        /\ LinesOf("skipped")[j].url = sites[k]
                        /\ LinesOf("skipped")[j].reason = "fetch failed"
                  /\ \A j \in 1..Len(LinesOf("page")) : LinesOf("page")[j].url # sites[k]
                  /\ Len(LinesOf("toc")) = Len(LinesOf("page"))

\* C12 witness: a full document of a run with one URL per chunk whose first
\* fetch failed and whose last URL became a page.
C12_Witness ==
    /\ mode = "genFull"
    /\ Printed
    /\ Concurrency = 1
    /\ Len(sites) = 3
    /\ FetchFailed(1)
    /\ \E j \in 1..Len(LinesOf("page")) : LinesOf("page")[j].url = sites[3]
    /\ \E j \in 1..Len(LinesOf("skipped")) : LinesOf("skipped")[j].url = sites[1]

\* Every fetch that was made came back with the page and its title.
AllFetchedWithTitle ==
    \A k \in DOMAIN html :
        fetches[k] > 0 =>
            /\ IsSome(html[k])
            /\ ~Get(html[k]).failed
            /\ Get(html[k]).title = TitleText(sites[k])

BulletUrls == [j \in 1..Len(LinesOf("bullet")) |-> LinesOf("bullet")[j].url]

\* C13: for the sitemap /, /docs/a, /docs/b, /blog/c, every page fetched
\* with its title, and the exclude pattern "/blog/*", the index document has
\* the title Home, the one section "## Docs" with the links of A and B in
\* that order, no blog section and no mention of /blog/c.
C13_BlogExcludedByPathGlob ==
    /\ mode = "gen"
    /\ sites = <<UrlRoot, UrlA, UrlB, UrlC>>
    /\ options.excludePath = <<GlobPathBlog>>
    /\ options.replaceTitle = <<>>
    /\ batchStatus = "returned"
    /\ AllFetchedWithTitle
    => /\ LinesOf("title")[1].text = <<"Home">>
       /\ HeadingKeys = <<Docs>>
       /\ LinesOf("heading")[1].text = <<"D", "o", "c", "s">>
       /\ BulletUrls = <<UrlA, UrlB>>

\* The chunk (from 0) of the URL at position k (from 1): the URL at index
\* k - 1 is in chunk (k - 1) div C.
ChunkOf(k) == (k - 1) \div Concurrency

\* C14: the chunks are processed in order with a barrier between them: a
\* pipeline has started (filter check, fetch) only if every pipeline of
\* every earlier chunk has completed; chunk c is made of the URLs at the
\* indices c*C .. min((c+1)*C, n) - 1, which all start together.
C14_ChunkBarrier ==
    Concurrency >= 1 =>
        \A k \in DOMAIN pipe :
            /\ Launched(k) <=> ChunkOf(k) <= i \div Concurrency
            /\ Launched(k) =>
                  \A j \in 1..(k - 1) :
                      ChunkOf(j) < ChunkOf(k) => pipe[j].state = "resolved"
            /\ pc = "crawl" /\ k \in Batch(sites, i) =>
                  /\ k - 1 >= (i \div Concurrency) * Concurrency
                  /\ k - 1 <= Min((i \div Concurrency + 1) * Concurrency, Len(sites)) - 1

\* C14 witness: chunks of two, the second URL of the first chunk completed
\* before the first, and the third URL, alone in the second chunk, started.
C14_Witness ==
    /\ Concurrency = 2
    /\ Len(sites) = 3
    /\ Len(settled) >= 2
    /\ settled[1] = 2
    /\ settled[2] = 1
    /\ pipe[3].state = "fetching"

\* C15: no retry: fetchHtml is called at most once for a position of the
\* sitemap, whether the request fails, the page has no title or the page is
\* processed; a position that has its response has had exactly one call.
C15_NoRetries ==
    \A k \in DOMAIN fetches :
        /\ fetches[k] <= 1
        /\ IsSome(html[k]) => fetches[k] = 1

\* C15 witness: a run that returned after a failed request, a page without
\* title and a processed page, each fetched once.
C15_Witness ==
    /\ batchStatus = "returned"
    /\ Len(sites) = 3
    /\ \A k \in 1..3 : IsSome(html[k]) /\ fetches[k] = 1
    /\ \E k \in 1..3 : Get(html[k]).failed
    /\ \E k \in 1..3 : ~Get(html[k]).failed /\ getTitle(Get(html[k])) = <<>>
    /\ \E k \in 1..3 : pipe[k].value.kind \in {"page", "true"}

\* The number of times position k settled.
TimesSettled(k) == Len(SelectSeq(settled, LAMBDA j : j = k))

\* C16: for every sitemap and every concurrency C >= 1, a run in which
\* every fetch has returned has completed: the pipeline of every URL was
\* started and finished exactly once, and the final document was printed.
C16_RunCompletes ==
    /\ Concurrency >= 1
    /\ sitemapStatus = "ok"
    /\ pc = "done"
    /\ InFlight = {}
    => /\ \A k \in DOMAIN pipe : pipe[k].state = "resolved" /\ TimesSettled(k) = 1
       /\ Printed

\* The raw title of the page at position k after the first n configured
\* commands, each applied to the result of the one before.
RECURSIVE RewrittenUpTo(_, _)
RewrittenUpTo(k, n) ==
    IF n = 0 THEN getTitle(Get(html[k]))
    ELSE Get(substituteTitle(RewrittenUpTo(k, n - 1), options.replaceTitle[n]))

\* The positions that became a page, and the title the page was given.
IsPage(k) == pipe[k].state = "resolved" /\ pipe[k].value.kind \in {"page", "true"}

FinalTitle(k) ==
    IF mode = "gen" THEN pipe[k].value.title
    ELSE (CHOOSE e \in {pageInfos[j] : j \in 1..Len(pageInfos)} : e.url = sites[k]).title

IsBlank(text) == \A j \in 1..Len(text) : IsSpace(text[j])

\* The page at position k was fetched and has a title that is not blank.
FetchedWithTitle(k) ==
    /\ IsSome(html[k])
    /\ ~Get(html[k]).failed
    /\ ~IsBlank(Get(html[k]).title)

\* C18: a page without a title is never included: every page of the output
\* (index bullets, index title taken from a ROOT page, table of contents and
\* body of the full document) was fetched successfully with a title that is
\* neither empty nor white space only; a fetched page whose title is absent
\* or blank gives no page result, and in genFull one "no title" skip.
C18_UntitledPagesNeverIncluded ==
    /\ \A k \in DOMAIN pipe :
          /\ IsPage(k) => FetchedWithTitle(k)
          /\ PageCount(k) > 0 => FetchedWithTitle(k)
          /\ IsSome(html[k]) /\ ~Get(html[k]).failed /\ IsBlank(Get(html[k]).title) =>
                /\ pipe[k] = Resolved(NullResult)
                /\ PageCount(k) = 0
                /\ mode = "genFull" =>
                      SkipCount(k) = 1 /\ SkipReasons(sites[k]) = {"no title"}
    /\ Printed =>
          /\ \A j \in 1..Len(LinesOf("bullet")) :
                FetchedWithTitle(IndexOf(LinesOf("bullet")[j].url))
          /\ \A j \in 1..Len(LinesOf("page")) :
                FetchedWithTitle(IndexOf(LinesOf("page")[j].url))
          /\ Len(LinesOf("toc")) = Len(LinesOf("page"))
          /\ mode = "gen" /\ ~Truthy(options.title) =>
                \/ LinesOf("title")[1].text = DefaultTitle
                \/ \E k \in DOMAIN pipe :
                      /\ parseSection(sites[k]) = ROOT
                      /\ FetchedWithTitle(k)
                      /\ pipe[k].value.kind = "page"
                      /\ pipe[k].value.title = LinesOf("title")[1].text

\* C18 witness: a full document of a run in which one page came back with a
\* title of white space only and is listed as skipped for 'no title', and
\* another became a page.
C18_Witness ==
    /\ mode = "genFull"
    /\ Printed
    /\ \E k \in DOMAIN pipe :
          /\ IsSome(html[k])
          /\ ~Get(html[k]).failed
          /\ Get(html[k]).title = <<Space, Space>>
          /\ \E j \in 1..Len(LinesOf("skipped")) :
                /\ LinesOf("skipped")[j].url = sites[k]
                /\ LinesOf("skipped")[j].reason = "no title"
    /\ Len(LinesOf("page")) >= 1

\* C19: whatever --concurrency delivers (absent, NaN, 0, a positive or a
\* negative integer), the chunk size processInBatches is called with is a
\* positive integer, so that its loop advances.
C19_ChunkSizePositive ==
    batchStatus # "none" => Concurrency >= 1 /\ NextStart(i) > i

\* C20: when processInBatches has returned or thrown, no processor call it
\* started is still in flight, so that no pipeline runs on after the catch
\* block and writes to skipped or pageInfos.
C20_NothingInFlightAfterScheduler ==
    batchStatus \in {"returned", "rejected"} => InFlight = {}

\* C21: the description line of the index document is always a defined
\* value: --description when given, else the description of the first ROOT
\* page when it has one, else the default 'Generated documentation'; a ROOT
\* page without a description meta tag never makes it show "undefined".
C21_DescriptionLineDefined ==
    mode = "gen" /\ Printed =>
        /\ LinesOf("description")[1].text # <<"undefined">>
        /\ LinesOf("description")[1].text =
              IF Truthy(options.description) THEN Get(options.description)
              ELSE IF RootResults # <<>> /\ IsSome(RootResults[1].description)
                   THEN Get(RootResults[1].description)
              ELSE DefaultDescription

====
